---- MODULE Spec2Model ----
(***************************************************************************)
(* MemoCache<K, V, SIZE> (src/src/lib.rs): a fixed-size key/value cache    *)
(* with FIFO retention.  The cache is an array of SIZE slots, each Empty   *)
(* or Used((k, v)), and a cursor naming the slot that the next insertion   *)
(* of a key that is not present overwrites.                                *)
(*                                                                         *)
(* The methods of MemoCache are operators from a cache value (and the      *)
(* arguments) to the resulting cache value and return value; the actions   *)
(* apply them to the one cache of the model, with arguments drawn from     *)
(* small sets.  Slot indices are 0-based as in the source.                 *)
(***************************************************************************)
EXTENDS Integers, Sequences, FiniteSets, TLC

\* Largest capacity (the const generic SIZE) the model instantiates.
MaxSize == 3

\* The keys, and per key the values it is stored with (K = String, V = i32
\* in the tests): the arguments of insert, the results f(k) of the callbacks
\* and the values written through get_mut are drawn from these.
Keys == {"John", "Doe", "Amy", "veni"}
\* The keys of test_nonempty, in the order it inserts them.
VeniKeys == {"veni", "vidi", "vici", "blah", "bleh", "bloh"}
AllKeys == Keys \cup VeniKeys
ValuesOf == [k \in AllKeys |->
               CASE k = "John" -> {17, 42}
                 [] k = "Doe"  -> {19, 23}
                 [] k = "Amy"  -> {5, 29}
                 [] k = "veni" -> {19, 42}
                 [] k = "vidi" -> {23}
                 [] k = "vici" -> {29}
                 [] OTHER      -> {42}]
\* Error values a fallible callback can return (E = &str in the tests).
Errors == {"Whoops", "Dunno"}

VARIABLES
    SIZE,      \* the const generic parameter SIZE of this instantiation
    buffer,    \* MemoCache::buffer : [KeyValueSlot<K, V>; SIZE]
    cursor,    \* MemoCache::cursor : usize
    call,      \* the last method called and its arguments
    ret,       \* what that call returned
    invoked,   \* the keys the callback f was invoked with during that call
    age,       \* per present key: insertions of not-present keys since it was stored
    run,       \* the (k, v) inserted since new(), while they are inserts of distinct keys only
    script,    \* how far the calls since new() follow the duplicate-insertion scenario
    fault,     \* how the last call ended: "none" when it returned
    stored,    \* calls that stored a not-present key since new() or clear(), where counted
    evict,     \* the key overwritten last since clear(); whether the last call removed a key, or stored that one again
    nonempty,  \* how far the calls since new() follow test_nonempty
    queue,     \* the pairs stored, oldest key first, kept by the same calls as a bounded FIFO queue
    failed     \* the key of the get_or_try_insert_with that just failed and the cache before it, where counted

vars == <<SIZE, buffer, cursor, call, ret, invoked, age, run, script,
          fault, stored, evict, nonempty, queue, failed>>

----------------------------------------------------------------------------
\* Option<T>, Result<T, E> and the unit return value.
None == <<"None">>
Some(x) == <<"Some", x>>
Ok(x) == <<"Ok", x>>
Err(e) == <<"Err", e>>
Unit == <<"()">>

is_some(o) == o[1] = "Some"
is_ok(r) == r[1] = "Ok"
unwrap(o) == o[2]

\* enum KeyValueSlot<K, V> { Used((K, V)), Empty }
Empty == <<"Empty">>
Used(k, v) == <<"Used", k, v>>
is_used(s) == s[1] = "Used"

\* Equivalent::equivalent: self == k.borrow()
equivalent(q, k) == q = k

\* KeyValueSlot::is_key
is_key(s, k) == IF is_used(s) THEN equivalent(k, s[2]) ELSE FALSE

\* KeyValueSlot::get_value
get_value(s) == IF is_used(s) THEN Some(s[3]) ELSE None

\* KeyValueSlot::update_value
update_value(s, v) == IF is_used(s) THEN Used(s[2], v) ELSE s

----------------------------------------------------------------------------
\* A cache value: the fields of the struct together with its SIZE.
Cache(n, b, c) == [SIZE |-> n, buffer |-> b, cursor |-> c]

self == Cache(SIZE, buffer, cursor)

\* Iterator::position over buffer.iter(): the first index, in 0..SIZE-1
\* order, of a slot holding key k.
position(c, k) ==
    IF \E i \in 0..(c.SIZE - 1) : is_key(c.buffer[i], k)
    THEN Some(CHOOSE i \in 0..(c.SIZE - 1) :
                  /\ is_key(c.buffer[i], k)
                  /\ \A j \in 0..(i - 1) : ~is_key(c.buffer[j], k))
    ELSE None

\* new with the cursor started at the last slot.
new_cursor_last(n) == Cache(n, [i \in 0..(n - 1) |-> Empty], n - 1)

\* MemoCache::new
new(n) == Cache(n, [i \in 0..(n - 1) |-> Empty], 0)

\* Default::default for MemoCache
default(n) == new(n)

\* MemoCache::capacity
capacity(c) == c.SIZE

\* The cursor is not the index of a slot: get_unchecked_mut(self.cursor) is
\* called outside its safety contract.
out_of_bounds(c) == c.cursor \notin 0..(c.SIZE - 1)

\* replace_and_shift with a cursor that saturates at the last slot instead
\* of wrapping around.
replace_and_shift_saturate(c, k, v) ==
    LET b == [c.buffer EXCEPT ![c.cursor] = Used(k, v)]
    IN  [cache |-> Cache(c.SIZE, b,
                         IF c.cursor + 1 < c.SIZE THEN c.cursor + 1 ELSE c.cursor),
         ret   |-> unwrap(get_value(b[c.cursor]))]

\* replace_and_shift that moves the cursor on first and then fills the slot
\* under it.
replace_and_shift_shift_first(c, k, v) ==
    IF out_of_bounds(c)
    THEN [cache |-> c, ret |-> v]
    ELSE LET n == (c.cursor + 1) % c.SIZE
             b == [c.buffer EXCEPT ![n] = Used(k, v)]
         IN  [cache |-> Cache(c.SIZE, b, n),
              ret   |-> unwrap(get_value(b[n]))]

\* replace_and_shift that leaves the cursor where it is.
replace_and_shift_no_shift(c, k, v) ==
    LET b == [c.buffer EXCEPT ![c.cursor] = Used(k, v)]
    IN  [cache |-> Cache(c.SIZE, b, c.cursor),
         ret   |-> unwrap(get_value(b[c.cursor]))]

\* MemoCache::replace_and_shift: the resulting cache and the returned value.
\* With the cursor out of bounds the call does not return (Faults below):
\* the cache is given back as it was.
replace_and_shift(c, k, v) ==
    IF out_of_bounds(c)
    THEN [cache |-> c, ret |-> v]
    ELSE LET b == [c.buffer EXCEPT ![c.cursor] = Used(k, v)]
         IN  [cache |-> Cache(c.SIZE, b, (c.cursor + 1) % c.SIZE),
              ret   |-> unwrap(get_value(b[c.cursor]))]

\* insert that never looks the key up.
insert_no_lookup(c, k, v) == replace_and_shift(c, k, v).cache

\* insert whose update path also moves the cursor on.
insert_update_shifts(c, k, v) ==
    LET s == position(c, k)
    IN  IF is_some(s)
        THEN Cache(c.SIZE,
                   [c.buffer EXCEPT ![unwrap(s)] = update_value(@, v)],
                   (c.cursor + 1) % c.SIZE)
        ELSE replace_and_shift(c, k, v).cache

\* insert that refreshes a present key: its slot is emptied and the pair is
\* stored again at the cursor.
insert_refresh(c, k, v) ==
    LET s == position(c, k)
    IN  IF is_some(s)
        THEN replace_and_shift(
                 Cache(c.SIZE, [c.buffer EXCEPT ![unwrap(s)] = Empty], c.cursor),
                 k, v).cache
        ELSE replace_and_shift(c, k, v).cache

\* insert that keeps the stored value of a present key.
insert_keep_old(c, k, v) ==
    LET s == position(c, k)
    IN  IF is_some(s) THEN c ELSE replace_and_shift(c, k, v).cache

\* MemoCache::insert
insert(c, k, v) ==
    LET s == position(c, k)
    IN  IF is_some(s)
        THEN Cache(c.SIZE,
                   [c.buffer EXCEPT ![unwrap(s)] = update_value(@, v)],
                   c.cursor)
        ELSE replace_and_shift(c, k, v).cache

\* contains_key that does not look at the first slot.
contains_key_skip_first(c, k) == \E i \in 1..(c.SIZE - 1) : is_key(c.buffer[i], k)

\* MemoCache::contains_key
contains_key(c, k) == \E i \in 0..(c.SIZE - 1) : is_key(c.buffer[i], k)

\* MemoCache::get
get(c, k) ==
    LET s == position(c, k)
    IN  IF is_some(s) THEN Some(unwrap(get_value(c.buffer[unwrap(s)]))) ELSE None

\* get_mut that takes the first Used slot, whatever its key.
get_mut_any_used(c, k) ==
    IF \E i \in 0..(c.SIZE - 1) : is_used(c.buffer[i])
    THEN Some(CHOOSE i \in 0..(c.SIZE - 1) :
                  /\ is_used(c.buffer[i])
                  /\ \A j \in 0..(i - 1) : ~is_used(c.buffer[j]))
    ELSE None

\* MemoCache::get_mut: a reference to the value of the slot found, named by
\* the index of that slot.
get_mut(c, k) ==
    LET s == position(c, k)
    IN  IF is_some(s) THEN Some(unwrap(s)) ELSE None

\* A write of w through the reference get_mut returned (*v = w).
write_through(c, i, w) ==
    Cache(c.SIZE, [c.buffer EXCEPT ![i] = Used(@[2], w)], c.cursor)

\* MemoCache::get_key_index
get_key_index(c, k) == position(c, k)

\* get_or_insert_with that computes f(k) before it looks the key up.
get_or_insert_with_eager(c, k, f) ==
    LET v == f[k]
        i == get_key_index(c, k)
    IN  IF is_some(i)
        THEN [cache   |-> c,
              ret     |-> unwrap(get_value(c.buffer[unwrap(i)])),
              invoked |-> <<k>>]
        ELSE LET r == replace_and_shift(c, k, v)
             IN  [cache |-> r.cache, ret |-> r.ret, invoked |-> <<k>>]

\* get_or_insert_with that stores f(k) also when the key is present.
get_or_insert_with_update(c, k, f) ==
    LET i == get_key_index(c, k)
    IN  IF is_some(i)
        THEN [cache   |-> Cache(c.SIZE,
                                [c.buffer EXCEPT ![unwrap(i)] = update_value(@, f[k])],
                                c.cursor),
              ret     |-> f[k],
              invoked |-> <<k>>]
        ELSE LET r == replace_and_shift(c, k, f[k])
             IN  [cache |-> r.cache, ret |-> r.ret, invoked |-> <<k>>]

\* MemoCache::get_or_insert_with.  f is a function from keys to values; the
\* result holds the cache, the returned value and the keys f was called with.
get_or_insert_with(c, k, f) ==
    LET i == get_key_index(c, k)
    IN  IF is_some(i)
        THEN [cache   |-> c,
              ret     |-> unwrap(get_value(c.buffer[unwrap(i)])),
              invoked |-> <<>>]
        ELSE LET r == replace_and_shift(c, k, f[k])
             IN  [cache |-> r.cache, ret |-> r.ret, invoked |-> <<k>>]

\* Process::memoized2a (examples/example.rs): memoization with get and
\* insert.  The resulting cache, the returned value and the keys the
\* computation was called with.
memoized2a(c, k, f) ==
    LET value == get(c, k)
    IN  IF is_some(value)
        THEN [cache |-> c, ret |-> unwrap(value), invoked |-> <<>>]
        ELSE LET result == f[k]
             IN  [cache |-> insert(c, k, result), ret |-> result, invoked |-> <<k>>]

\* Process::memoized2b: memoization with get_or_insert_with.
memoized2b(c, k, f) == get_or_insert_with(c, k, f)

\* get_or_try_insert_with that claims the slot at the cursor before it calls
\* f, and does not give it back when f fails.
get_or_try_insert_with_reserve(c, k, f) ==
    LET i == get_key_index(c, k)
    IN  IF is_some(i)
        THEN [cache   |-> c,
              ret     |-> Ok(unwrap(get_value(c.buffer[unwrap(i)]))),
              invoked |-> <<>>]
        ELSE LET fk == f[k]
             IN  IF is_ok(fk)
                 THEN LET r == replace_and_shift(c, k, fk[2])
                      IN  [cache |-> r.cache, ret |-> Ok(r.ret), invoked |-> <<k>>]
                 ELSE [cache   |-> Cache(c.SIZE, c.buffer, (c.cursor + 1) % c.SIZE),
                       ret     |-> fk,
                       invoked |-> <<k>>]

\* get_or_try_insert_with that calls f first and stores a successful result
\* with insert, overwriting the value of a present key.
get_or_try_insert_with_overwrite(c, k, f) ==
    LET fk == f[k]
    IN  IF is_ok(fk)
        THEN [cache   |-> insert(c, k, fk[2]),
              ret     |-> Ok(fk[2]),
              invoked |-> <<k>>]
        ELSE [cache |-> c, ret |-> fk, invoked |-> <<k>>]

\* get_or_try_insert_with that calls f before it looks the key up and gives
\* up when f fails.
get_or_try_insert_with_try_first(c, k, f) ==
    LET fk == f[k]
        i  == get_key_index(c, k)
    IN  IF ~is_ok(fk)
        THEN [cache |-> c, ret |-> fk, invoked |-> <<k>>]
        ELSE IF is_some(i)
        THEN [cache   |-> c,
              ret     |-> Ok(unwrap(get_value(c.buffer[unwrap(i)]))),
              invoked |-> <<k>>]
        ELSE LET r == replace_and_shift(c, k, fk[2])
             IN  [cache |-> r.cache, ret |-> Ok(r.ret), invoked |-> <<k>>]

\* MemoCache::get_or_try_insert_with.  f is a function from keys to
\* Result<V, E>.
get_or_try_insert_with(c, k, f) ==
    LET i == get_key_index(c, k)
    IN  IF is_some(i)
        THEN [cache   |-> c,
              ret     |-> Ok(unwrap(get_value(c.buffer[unwrap(i)]))),
              invoked |-> <<>>]
        ELSE LET fk == f[k]
             IN  IF is_ok(fk)
                 THEN LET r == replace_and_shift(c, k, fk[2])
                      IN  [cache |-> r.cache, ret |-> Ok(r.ret), invoked |-> <<k>>]
                 ELSE [cache |-> c, ret |-> fk, invoked |-> <<k>>]

\* clear that empties the slots and leaves the cursor where it is.
clear_keep_cursor(c) == Cache(c.SIZE, [i \in 0..(c.SIZE - 1) |-> Empty], c.cursor)

\* MemoCache::clear
clear(c) == Cache(c.SIZE, [i \in 0..(c.SIZE - 1) |-> Empty], 0)

----------------------------------------------------------------------------
\* Callbacks handed to get_or_insert_with (FnOnce(&K) -> V) and to
\* get_or_try_insert_with (FnOnce(&K) -> Result<V, E>).
lo(S) == CHOOSE x \in S : \A y \in S : x <= y
hi(S) == CHOOSE x \in S : \A y \in S : x >= y
Fns == {[k \in AllKeys |-> lo(ValuesOf[k])], [k \in AllKeys |-> hi(ValuesOf[k])]}
TryFns == {[k \in AllKeys |-> Ok(f[k])] : f \in Fns}
              \cup {[k \in AllKeys |-> Err(e)] : e \in Errors}

\* No key / no argument, for calls that take none.
NoKey == "-"

Call(op, k, arg, hit) == [op |-> op, k |-> k, arg |-> arg, hit |-> hit]

\* The call stored a key that was not present (the eviction path).
NewKey(cl) ==
    /\ ~cl.hit
    /\ \/ cl.op \in {"insert", "get_or_insert_with"}
       \/ cl.op = "get_or_try_insert_with" /\ is_ok(cl.arg)

\* The duplicate-insertion scenario, on a cache of capacity 2
\* (test_duplicate_insertions, followed by one insertion of a third key).
ScenarioSize == 2
Scenario == << <<"John", 17>>, <<"Doe", 19>>, <<"John", 17>>,
               <<"John", 42>>, <<"Amy", 5>> >>

run_keys(r) == {r[i][1] : i \in 1..Len(r)}

\* test_nonempty: capacity 3, three keys that fill the cache and three more
\* that push them out.
NonemptySize == 3
Nonempty == << <<"veni", 19>>, <<"vidi", 23>>, <<"vici", 29>>,
               <<"blah", 42>>, <<"bleh", 42>>, <<"bloh", 42>> >>

\* The ways a call that cannot return ends.
Panic == <<"panic">>

\* How a call cl can end.  A call that reaches replace_and_shift with the
\* cursor out of bounds is undefined behaviour followed by the remainder
\* (cursor + 1) % SIZE: it panics, having written a slot outside the buffer
\* (no bounds check compiled in) or not (the debug assertion of
\* get_unchecked_mut or the division by zero stops it first).
Faults(cl) ==
    IF NewKey(cl) /\ out_of_bounds(self)
    THEN {"panic", "oob_write"}
    ELSE {"none"}

\* The keys stored in some slot of cache c.
keys_in(c) == {c.buffer[i][2] : i \in {j \in 0..(c.SIZE - 1) : is_used(c.buffer[j])}}

\* stored after a call cl: counted up to twice the capacity, and only in the
\* behaviours that start counting (InitCount).
next_stored(cl) ==
    IF stored = <<"off">> THEN stored
    ELSE IF cl.op = "clear" THEN Some(0)
    ELSE IF NewKey(cl)
    THEN (IF is_some(stored) /\ unwrap(stored) < 2 * SIZE
          THEN Some(unwrap(stored) + 1) ELSE None)
    ELSE stored

\* evict after a call cl that left the cache as c2.
next_evict(c2, cl) ==
    LET gone == keys_in(self) \ keys_in(c2)
    IN  [last |-> IF cl.op = "clear" THEN NoKey
                  ELSE IF gone = {} THEN evict.last
                  ELSE CHOOSE x \in gone : TRUE,
         now  |-> gone # {},
         back |-> NewKey(cl) /\ cl.k = evict.last]

\* nonempty after a call cl.
next_nonempty(cl) ==
    IF cl.op \in {"get", "contains_key", "capacity"} THEN nonempty
    ELSE IF /\ cl.op = "insert"
            /\ nonempty \in 0..(Len(Nonempty) - 1)
            /\ <<cl.k, unwrap(cl.arg)>> = Nonempty[nonempty + 1]
    THEN nonempty + 1
    ELSE -1

\* The bounded FIFO queue of (key, value) pairs that stands for the cache:
\* the keys in it, its mappings, and its insert for capacity n.  A present
\* key has its value replaced in place; an absent one is appended, and the
\* head is dropped when the length would exceed n.
queue_keys(q) == {q[i][1] : i \in 1..Len(q)}

queue_map(q) == {q[i] : i \in 1..Len(q)}

queue_insert(q, n, k, v) ==
    IF k \in queue_keys(q)
    THEN [i \in 1..Len(q) |-> IF q[i][1] = k THEN <<k, v>> ELSE q[i]]
    ELSE LET a == Append(q, <<k, v>>)
         IN  IF Len(a) > n THEN Tail(a) ELSE a

\* queue after a call cl: clear empties it, insert inserts, the two
\* get_or_insert calls insert what f returned when the key is not in it, a
\* write through get_mut replaces the value of the key.
next_queue(cl) ==
    IF cl.op = "clear" THEN <<>>
    ELSE IF cl.op = "insert" THEN queue_insert(queue, SIZE, cl.k, unwrap(cl.arg))
    ELSE IF cl.op = "get_mut_write" /\ cl.k \in queue_keys(queue)
    THEN queue_insert(queue, SIZE, cl.k, unwrap(cl.arg))
    ELSE IF /\ cl.op \in {"get_or_insert_with", "get_or_try_insert_with"}
            /\ cl.arg[1] \in {"Some", "Ok"}
            /\ cl.k \notin queue_keys(queue)
    THEN queue_insert(queue, SIZE, cl.k, unwrap(cl.arg))
    ELSE queue

\* failed after a call cl: a get_or_try_insert_with of a not-present key
\* whose f returned Err is remembered with the cache it was called on; a
\* get_or_try_insert_with or get_or_insert_with of that key right after it
\* is marked as the retry.  Only in the behaviours that start counting.
next_failed(cl) ==
    IF failed = <<"off">> THEN failed
    ELSE IF cl.op = "get_or_try_insert_with" /\ ~cl.hit /\ ~is_ok(cl.arg)
    THEN <<"failed", cl.k, self>>
    ELSE IF /\ failed[1] = "failed"
            /\ cl.op \in {"get_or_insert_with", "get_or_try_insert_with"}
            /\ cl.k = failed[2]
    THEN <<"retried", cl.k, failed[3]>>
    ELSE <<"none">>

\* age after a call cl that left the cache as c2.
next_age(c2, cl) ==
    IF cl.op = "clear" THEN [x \in AllKeys |-> 0]
    ELSE IF NewKey(cl)
    THEN [x \in AllKeys |->
            IF x = cl.k THEN 0
            ELSE IF contains_key(c2, x)
                 THEN (IF age[x] < c2.SIZE THEN age[x] + 1 ELSE age[x])
                 ELSE 0]
    ELSE age

\* run after a call cl: insert of a key not inserted before extends it, the
\* &self lookups keep it, any other call ends it.
next_run(cl) ==
    IF cl.op \in {"get", "contains_key", "capacity"} THEN run
    ELSE IF /\ cl.op = "insert"
            /\ is_some(run)
            /\ cl.k \notin run_keys(unwrap(run))
            /\ Len(unwrap(run)) <= SIZE
    THEN Some(Append(unwrap(run), <<cl.k, unwrap(cl.arg)>>))
    ELSE None

\* script after a call cl.
next_script(cl) ==
    IF cl.op \in {"get", "contains_key", "capacity"} THEN script
    ELSE IF /\ cl.op = "insert"
            /\ script \in 0..(Len(Scenario) - 1)
            /\ <<cl.k, unwrap(cl.arg)>> = Scenario[script + 1]
    THEN script + 1
    ELSE -1

\* A call cl on the cache that leaves it as c2, returns r and invoked the
\* callback with the keys inv.
Step(c2, cl, r, inv) ==
    /\ fault = "none"
    /\ fault' \in Faults(cl)
    /\ buffer' = c2.buffer
    /\ cursor' = c2.cursor
    /\ SIZE' = c2.SIZE
    /\ call' = cl
    /\ ret' = (IF fault' = "none" THEN r ELSE Panic)
    /\ invoked' = inv
    /\ age' = next_age(c2, cl)
    /\ run' = next_run(cl)
    /\ script' = next_script(cl)
    /\ stored' = next_stored(cl)
    /\ evict' = next_evict(c2, cl)
    /\ nonempty' = next_nonempty(cl)
    /\ queue' = next_queue(cl)
    /\ failed' = next_failed(cl)

----------------------------------------------------------------------------
\* let c = MemoCache::<K, V, n>::new()  or  ::default()
InitWith(n, ctor, counting) ==
        /\ SIZE = n
        /\ buffer = (IF ctor = "default" THEN default(n) ELSE new(n)).buffer
        /\ cursor = (IF ctor = "default" THEN default(n) ELSE new(n)).cursor
        /\ call = Call(ctor, NoKey, None, FALSE)
        /\ ret = Unit
        /\ invoked = <<>>
        /\ age = [x \in AllKeys |-> 0]
        /\ run = Some(<<>>)
        /\ script = IF n = ScenarioSize THEN 0 ELSE -1
        /\ fault = "none"
        /\ stored = (IF counting THEN Some(0) ELSE <<"off">>)
        /\ evict = [last |-> NoKey, now |-> FALSE, back |-> FALSE]
        /\ nonempty = IF n = NonemptySize THEN 0 ELSE -1
        /\ queue = <<>>
        /\ failed = (IF counting THEN <<"none">> ELSE <<"off">>)

Init == \E n \in 1..MaxSize, ctor \in {"new", "default"} : InitWith(n, ctor, FALSE)

\* As Init, with the calls that store a not-present key counted.
InitCount == \E n \in 1..MaxSize, ctor \in {"new", "default"} : InitWith(n, ctor, TRUE)

\* Every capacity the type accepts, the empty cache MemoCache::<K, V, 0>
\* included.
InitAnySize == \E n \in 0..MaxSize, ctor \in {"new", "default"} : InitWith(n, ctor, FALSE)

\* test_nonempty's cache: MemoCache::<String, i32, 3>::new().
InitVeni == \E ctor \in {"new", "default"} : InitWith(NonemptySize, ctor, FALSE)

\* c.capacity()
Capacity ==
    Step(self, Call("capacity", NoKey, None, FALSE), Some(capacity(self)), <<>>)

\* c.insert(k, v)
Insert(k, v) ==
    Step(insert(self, k, v),
         Call("insert", k, Some(v), contains_key(self, k)), Unit, <<>>)

\* c.contains_key(&k)
ContainsKey(k) ==
    Step(self, Call("contains_key", k, None, contains_key(self, k)),
         Some(contains_key(self, k)), <<>>)

\* c.get(&k)
Get(k) ==
    Step(self, Call("get", k, None, contains_key(self, k)), get(self, k), <<>>)

\* c.get_mut(&k), the reference only read
GetMut(k) ==
    LET m == get_mut(self, k)
    IN  Step(self, Call("get_mut", k, None, contains_key(self, k)),
             IF is_some(m) THEN get_value(buffer[unwrap(m)]) ELSE None, <<>>)

\* if let Some(v) = c.get_mut(&k) { *v = w }
GetMutWrite(k, w) ==
    LET m == get_mut(self, k)
    IN  /\ is_some(m)
        /\ Step(write_through(self, unwrap(m), w),
                Call("get_mut_write", k, Some(w), TRUE),
                get_value(buffer[unwrap(m)]), <<>>)

\* c.get_or_insert_with(&k, f)
GetOrInsertWith(k, f) ==
    LET r == get_or_insert_with(self, k, f)
    IN  Step(r.cache,
             Call("get_or_insert_with", k,
                  Some(f[k]),
                  contains_key(self, k)),
             Some(r.ret), r.invoked)

\* c.get_or_try_insert_with(&k, f)
GetOrTryInsertWith(k, f) ==
    LET r == get_or_try_insert_with(self, k, f)
    IN  Step(r.cache,
             Call("get_or_try_insert_with", k,
                  f[k],
                  contains_key(self, k)),
             r.ret, r.invoked)

\* c.clear()
Clear ==
    Step(clear(self), Call("clear", NoKey, None, FALSE), Unit, <<>>)

Next ==
    \/ Capacity
    \/ \E k \in Keys : \E v \in ValuesOf[k] : Insert(k, v)
    \/ \E k \in Keys : ContainsKey(k)
    \/ \E k \in Keys : Get(k)
    \/ \E k \in Keys : GetMut(k)
    \/ \E k \in Keys : \E w \in ValuesOf[k] : GetMutWrite(k, w)
    \/ \E k \in Keys, f \in Fns : GetOrInsertWith(k, f)
    \/ \E k \in Keys, f \in TryFns : GetOrTryInsertWith(k, f)
    \/ Clear

Spec == Init /\ [][Next]_vars

\* The calls, counted.
SpecCount == InitCount /\ [][Next]_vars

\* The calls on a cache of any capacity, zero included.
SpecAnySize == InitAnySize /\ [][Next]_vars

\* The calls with the keys of test_nonempty.
NextVeni ==
    \/ Capacity
    \/ \E k \in VeniKeys : \E v \in ValuesOf[k] : Insert(k, v)
    \/ \E k \in VeniKeys : ContainsKey(k)
    \/ \E k \in VeniKeys : Get(k)
    \/ \E k \in VeniKeys : GetMut(k)
    \/ \E k \in VeniKeys : \E w \in ValuesOf[k] : GetMutWrite(k, w)
    \/ \E k \in VeniKeys, f \in Fns : GetOrInsertWith(k, f)
    \/ \E k \in VeniKeys, f \in TryFns : GetOrTryInsertWith(k, f)
    \/ Clear

SpecVeni == InitVeni /\ [][NextVeni]_vars

----------------------------------------------------------------------------
\* Every slot is Used.
Full == \A i \in 0..(SIZE - 1) : is_used(buffer[i])

\* The keys that have a value in cache c: those stored in a slot for which
\* contains_key answers true.
present(c) == {x \in keys_in(c) : contains_key(c, x)}

\* C1: FIFO eviction.  On a fresh cache of capacity N, once insert has been
\* called with N+1 pairwise distinct keys k0..kN in that order, get(k0) is
\* absent and get(k1)..get(kN) each return the value inserted with the key.
C1_FifoEviction ==
    (is_some(run) /\ Len(unwrap(run)) = SIZE + 1) =>
        LET r == unwrap(run)
        IN  /\ get(self, r[1][1]) = None
            /\ \A i \in 2..(SIZE + 1) : get(self, r[i][1]) = Some(r[i][2])

C1_Witness ==
    /\ SIZE = 3
    /\ is_some(run)
    /\ Len(unwrap(run)) = SIZE + 1
    /\ call.op = "insert"

\* C2: FIFO, not LRU.  A call that stores a key that was not present evicts
\* exactly the present key that has seen N-1 such calls since it was stored
\* itself (so a key is evicted by the N-th of them), whatever lookups, hits
\* and updates happened in between; and after the duplicate-insertion
\* scenario on capacity 2 followed by insert(Amy, 5), John is absent, Doe
\* maps to 19 and Amy maps to 5.
C2_FifoNotLru ==
    /\ [][NewKey(call') =>
            \A x \in present(self) :
                (x \notin present(self')) <=> (age[x] = SIZE - 1)]_vars
    /\ [](\A x \in present(self) : age[x] <= SIZE - 1)
    /\ [](script = Len(Scenario) =>
            /\ get(self, "John") = None
            /\ get(self, "Doe") = Some(19)
            /\ get(self, "Amy") = Some(5))

C2_Witness ==
    /\ script = Len(Scenario)
    /\ call.op = "insert"
    /\ call.k = "Amy"

\* C3: update in place.  insert(k, v') with k present makes get(k) return
\* v' and changes nothing else: the cursor, the slot of k, and the slot and
\* value of every other key stay as they were, also on a full cache.
C3_UpdateInPlace ==
    [][(call'.op = "insert" /\ call'.hit) =>
          /\ get(self', call'.k) = call'.arg
          /\ cursor' = cursor
          /\ position(self', call'.k) = position(self, call'.k)
          /\ \A x \in Keys \ {call'.k} :
                /\ get(self', x) = get(self, x)
                /\ position(self', x) = position(self, x)
          /\ \A i \in 0..(SIZE - 1) : is_used(buffer'[i]) = is_used(buffer[i])]_vars

\* insert(John, 42) on the full capacity-2 cache holding John -> 17.
C3_Witness ==
    /\ script = 4
    /\ call.op = "insert"
    /\ call.hit
    /\ Full
    /\ get(self, "John") = Some(42)

\* C4: duplicate insertion is a no-op.  insert(k, v) with k present with
\* value v leaves every slot and the cursor unchanged; so insert(k, v) done
\* twice in a row leaves the cache as insert(k, v) done once.
C4_DuplicateInsertNoOp ==
    /\ [][(call'.op = "insert" /\ get(self, call'.k) = call'.arg) =>
            (buffer' = buffer /\ cursor' = cursor)]_vars
    /\ [](\A k \in Keys : \A v \in ValuesOf[k] :
            insert(insert(self, k, v), k, v) = insert(self, k, v))

\* insert(John, 17) repeated on the cache holding John -> 17 and Doe -> 19.
C4_Witness ==
    /\ script = 3
    /\ call.op = "insert"
    /\ call.hit
    /\ get(self, call.k) = call.arg

\* C5: get_or_insert_with(k, f).  With k absent, f is invoked exactly once,
\* with k; the value it returns is stored under k in the slot at the cursor,
\* the cursor moves on, and that value is returned.  With k present, f is
\* not invoked, the stored value is returned and slots and cursor are
\* unchanged.
C5_GetOrInsertWith ==
    [][(call'.op = "get_or_insert_with") =>
          IF call'.hit
          THEN /\ invoked' = <<>>
               /\ ret' = get(self, call'.k)
               /\ buffer' = buffer
               /\ cursor' = cursor
          ELSE /\ invoked' = <<call'.k>>
               /\ buffer' = [buffer EXCEPT ![cursor] = Used(call'.k, unwrap(call'.arg))]
               /\ cursor' = (cursor + 1) % SIZE
               /\ ret' = call'.arg
               /\ get(self', call'.k) = call'.arg]_vars

\* A hit whose callback would have returned another value than the stored one.
C5_Witness ==
    /\ call.op = "get_or_insert_with"
    /\ call.hit
    /\ call.arg # ret
    /\ invoked = <<>>

\* C6: get_or_try_insert_with(k, f) with k absent and f returning Err(e)
\* returns Err(e) and leaves the cache as it was: every slot and the cursor
\* unchanged, k still absent, no key evicted, also on a full cache.
C6_TryInsertFailure ==
    [][(/\ call'.op = "get_or_try_insert_with"
        /\ ~call'.hit
        /\ ~is_ok(call'.arg)) =>
          /\ ret' = call'.arg
          /\ buffer' = buffer
          /\ cursor' = cursor
          /\ ~contains_key(self', call'.k)
          /\ present(self') = present(self)]_vars

C6_Witness ==
    /\ call.op = "get_or_try_insert_with"
    /\ ~call.hit
    /\ ret = Err("Whoops")
    /\ invoked = <<call.k>>
    /\ Full
    /\ SIZE = 2

\* C7: when f succeeds, get_or_try_insert_with behaves like
\* get_or_insert_with: for every state, key k and value v, the call with f
\* returning Ok(v) leaves the cache as get_or_insert_with with a callback
\* returning v does, and returns Ok of the value that call returns.
C7_TryLikeGetOrInsert ==
    [][(call'.op = "get_or_try_insert_with" /\ is_ok(call'.arg)) =>
          LET g == get_or_insert_with(self, call'.k,
                                      [x \in Keys |-> unwrap(call'.arg)])
          IN  /\ buffer' = g.cache.buffer
              /\ cursor' = g.cache.cursor
              /\ ret' = Ok(g.ret)
              /\ invoked' = g.invoked]_vars

\* A succeeding call on a present key whose f returns another value.
C7_Witness ==
    /\ call.op = "get_or_try_insert_with"
    /\ is_ok(call.arg)
    /\ call.hit
    /\ ret # call.arg

\* C8: no eviction before the cache is full.  After at most N insertions of
\* pairwise distinct keys into a fresh cache of capacity N, get returns for
\* every inserted key the value it was inserted with.
C8_NoEvictionBeforeFull ==
    (is_some(run) /\ Len(unwrap(run)) <= SIZE) =>
        LET r == unwrap(run)
        IN  \A i \in 1..Len(r) : get(self, r[i][1]) = Some(r[i][2])

C8_Witness ==
    /\ SIZE = 3
    /\ is_some(run)
    /\ Len(unwrap(run)) = SIZE
    /\ Full

\* C9: after insert(k, v), on any state, get(k) returns v and
\* contains_key(k) is true.
C9_InsertThenGet ==
    (call.op = "insert") =>
        /\ get(self, call.k) = call.arg
        /\ contains_key(self, call.k)

\* insert of a key that was present, on a full cache.
C9_Witness ==
    /\ call.op = "insert"
    /\ call.hit
    /\ Full
    /\ SIZE = 3

\* C10: a freshly constructed cache (new() or default()) of capacity N has
\* N slots, all Empty, and cursor 0, reports capacity() = N, and get,
\* get_mut and contains_key report every key absent.
C10_FreshCache ==
    (call.op \in {"new", "default"}) =>
        /\ DOMAIN buffer = 0..(SIZE - 1)
        /\ \A i \in 0..(SIZE - 1) : buffer[i] = Empty
        /\ cursor = 0
        /\ capacity(self) = SIZE
        /\ \A k \in Keys :
              /\ get(self, k) = None
              /\ get_mut(self, k) = None
              /\ ~contains_key(self, k)

C10_Witness ==
    /\ call.op = "default"
    /\ SIZE = MaxSize

----------------------------------------------------------------------------
\* The sequences of n pairwise distinct keys of Keys.
distinct_keys(n) ==
    {ks \in [1..n -> Keys] : \A i, j \in 1..n : ks[i] = ks[j] => i = j}

\* The cache after insert(ks[1], f(ks[1])), ..., insert(ks[n], f(ks[n])).
RECURSIVE insert_all(_, _, _, _)
insert_all(c, ks, f, n) ==
    IF n = 0 THEN c ELSE insert(insert_all(c, ks, f, n - 1), ks[n], f[ks[n]])

\* C11: clear() resets every slot to Empty and the cursor to 0, which is the
\* state of a freshly constructed cache: get returns None for every key that
\* was present, capacity() is unchanged, and the next N insertions of
\* distinct keys fill the slots 0..N-1 in order, none evicting another.
C11_ClearResets ==
    [][(call'.op = "clear") =>
          /\ \A i \in 0..(SIZE - 1) : buffer'[i] = Empty
          /\ cursor' = 0
          /\ self' = new(SIZE)
          /\ \A k \in present(self) : get(self', k) = None
          /\ present(self') = {}
          /\ capacity(self') = capacity(self)]_vars
    /\ [](call.op = "clear" =>
            \A ks \in distinct_keys(SIZE) : \A f \in Fns :
                insert_all(self, ks, f, SIZE).buffer
                    = [i \in 0..(SIZE - 1) |-> Used(ks[i + 1], f[ks[i + 1]])])

\* clear() that removed keys.
C11_Witness ==
    /\ call.op = "clear"
    /\ evict.now
    /\ SIZE = 3
    /\ cursor = 0

\* C12: cursor validity.  In every state reachable from new() on a cache of
\* capacity N, the cursor is the index of a slot: 0 <= cursor < N.
C12_CursorValid == cursor \in 0..(SIZE - 1)

\* C13: key uniqueness.  In every reachable state no two Used slots hold
\* equal keys, also after a key that was overwritten is stored again.
C13_KeysUnique ==
    \A i, j \in 0..(SIZE - 1) :
        (i # j /\ is_used(buffer[i]) /\ is_used(buffer[j])) =>
            ~equivalent(buffer[i][2], buffer[j][2])

\* The key overwritten last has just been stored again, in a full cache.
C13_Witness ==
    /\ evict.back
    /\ call.op = "insert"
    /\ Full
    /\ SIZE = 3

\* C14: totality.  For every capacity, zero included, and every reachable
\* state, every call returns: none panics or touches memory outside the
\* slots; and only get_or_try_insert_with returns an error, and only the one
\* its callback returned.
C14_Totality ==
    /\ fault = "none"
    /\ (ret[1] = "Err") =>
          (call.op = "get_or_try_insert_with" /\ ~call.hit /\ ret = call.arg)

\* The present key stored longest ago.
oldest(c) == CHOOSE x \in present(c) : \A y \in present(c) : age[x] >= age[y]

\* C15: successive evictions follow insertion order.  On capacity 3 with
\* veni, vidi, vici inserted in that order, inserting blah evicts veni only,
\* then bleh evicts vidi only (vici still present), then bloh evicts vici;
\* and on a full cache every call that stores a not-present key evicts the
\* key stored longest ago and no other.
C15_EvictionOrder ==
    /\ [][(NewKey(call') /\ Full) =>
            present(self) \ present(self') = {oldest(self)}]_vars
    /\ [](nonempty = 4 =>
            /\ evict.last = "veni"
            /\ present(self) = {"vidi", "vici", "blah"}
            /\ get(self, "vidi") = Some(23)
            /\ get(self, "vici") = Some(29))
    /\ [](nonempty = 5 =>
            /\ evict.last = "vidi"
            /\ present(self) = {"vici", "blah", "bleh"}
            /\ get(self, "vici") = Some(29))
    /\ [](nonempty = 6 =>
            /\ evict.last = "vici"
            /\ present(self) = {"blah", "bleh", "bloh"})

C15_Witness ==
    /\ nonempty = Len(Nonempty)
    /\ call.op = "insert"
    /\ call.k = "bloh"
    /\ evict.now

\* C16: get_mut(k).  With k present it gives access to the value stored
\* under k, and a write of w through it makes get(k) return w and changes
\* nothing else: cursor, the slot of every key and the value of every other
\* key stay.  With k absent it returns None and nothing changes.
C16_GetMut ==
    /\ [][(call'.op = "get_mut_write") =>
            /\ ret' = get(self, call'.k)
            /\ is_some(ret')
            /\ get(self', call'.k) = call'.arg
            /\ cursor' = cursor
            /\ \A x \in AllKeys : position(self', x) = position(self, x)
            /\ \A x \in AllKeys \ {call'.k} : get(self', x) = get(self, x)]_vars
    /\ [][(call'.op = "get_mut") =>
            /\ ret' = get(self, call'.k)
            /\ ~call'.hit => ret' = None
            /\ buffer' = buffer
            /\ cursor' = cursor]_vars

\* A write that changed the value of a key of a full cache.
C16_Witness ==
    /\ call.op = "get_mut_write"
    /\ Full
    /\ SIZE = 3
    /\ get(self, call.k) = call.arg
    /\ ret # call.arg

\* C17: the eviction path.  A call that stores a not-present key (insert,
\* get_or_insert_with, a succeeding get_or_try_insert_with) writes the pair
\* into the slot at the cursor and sets the cursor to (cursor + 1) mod N; so
\* after m such calls on a fresh or cleared cache the cursor is m mod N.
C17_EvictionPath ==
    /\ [][NewKey(call') =>
            /\ buffer' = [buffer EXCEPT ![cursor] = Used(call'.k, unwrap(call'.arg))]
            /\ cursor' = (cursor + 1) % SIZE]_vars
    /\ [](is_some(stored) => cursor = unwrap(stored) % SIZE)

\* Four such calls on capacity 2 (test_cursor_state).
C17_Witness ==
    /\ SIZE = 2
    /\ stored = Some(4)
    /\ cursor = 0
    /\ NewKey(call)

\* C18: a call that stores a not-present key changes exactly one slot, the
\* one at the cursor: at most one key that was present is absent afterwards,
\* the one that was in that slot, and every other key is still in its slot
\* with its value.
C18_OneSlotChanges ==
    [][(NewKey(call') /\ fault' = "none") =>
          /\ buffer'[cursor] # buffer[cursor]
          /\ \A i \in 0..(SIZE - 1) \ {cursor} : buffer'[i] = buffer[i]
          /\ Cardinality(present(self) \ present(self')) <= 1
          /\ \A x \in present(self) \ present(self') : is_key(buffer[cursor], x)
          /\ \A x \in present(self) \cap present(self') :
                /\ position(self', x) = position(self, x)
                /\ get(self', x) = get(self, x)]_vars

\* insert of a not-present key that overwrote a key.
C18_Witness ==
    /\ call.op = "insert"
    /\ NewKey(call)
    /\ evict.now
    /\ SIZE = 3

\* C19: lookups are pure and agree.  In every state and for every key,
\* contains_key(k) is true exactly when get(k) is Some exactly when
\* get_mut(k) is Some, get and get_mut denote the same stored value, and
\* get, contains_key and capacity leave slots and cursor unchanged.
C19_LookupsAgree ==
    /\ [](\A k \in AllKeys :
            /\ contains_key(self, k) <=> is_some(get(self, k))
            /\ is_some(get(self, k)) <=> is_some(get_mut(self, k))
            /\ is_some(get_mut(self, k)) =>
                  get_value(buffer[unwrap(get_mut(self, k))]) = get(self, k))
    /\ [][(call'.op \in {"get", "contains_key", "capacity"}) =>
            (buffer' = buffer /\ cursor' = cursor /\ SIZE' = SIZE)]_vars
    /\ [][(call'.op = "contains_key") => ret' = Some(is_some(get(self, call'.k)))]_vars
    /\ [][(call'.op = "get") => (is_some(ret') <=> contains_key(self, call'.k))]_vars

\* contains_key(k) answered true on a full cache.
C19_Witness ==
    /\ call.op = "contains_key"
    /\ call.hit
    /\ ret = Some(TRUE)
    /\ Full
    /\ SIZE = 3

\* The number of Used slots of cache c.
used_slots(c) == Cardinality({i \in 0..(c.SIZE - 1) : is_used(c.buffer[i])})

\* C20: slot life cycle.  A slot goes from Used to Empty only by clear();
\* between two clear() calls the number of Used slots never decreases; and a
\* key becomes absent only by clear() or by a call that stores a not-present
\* key into the slot at the cursor, the slot the key was in.
C20_SlotLifeCycle ==
    [][/\ \A i \in 0..(SIZE - 1) :
             (is_used(buffer[i]) /\ ~is_used(buffer'[i])) => call'.op = "clear"
       /\ (call'.op # "clear") => used_slots(self') >= used_slots(self)
       /\ \A x \in present(self) \ present(self') :
             \/ call'.op = "clear"
             \/ NewKey(call') /\ is_key(buffer[cursor], x)]_vars

\* get_or_insert_with of a not-present key that overwrote a key.
C20_Witness ==
    /\ call.op = "get_or_insert_with"
    /\ NewKey(call)
    /\ evict.now
    /\ Full

\* C21: get_or_try_insert_with(k, f) with k present returns Ok of the stored
\* value and does not invoke f: it succeeds, with slots and cursor unchanged,
\* also when f would have returned Err.
C21_TryHit ==
    [][(call'.op = "get_or_try_insert_with" /\ call'.hit) =>
          /\ is_some(get(self, call'.k))
          /\ ret' = Ok(unwrap(get(self, call'.k)))
          /\ invoked' = <<>>
          /\ buffer' = buffer
          /\ cursor' = cursor
          /\ fault' = "none"]_vars

\* A call on a present key, of a full cache, whose f returns Err.
C21_Witness ==
    /\ call.op = "get_or_try_insert_with"
    /\ call.hit
    /\ ~is_ok(call.arg)
    /\ is_ok(ret)
    /\ Full
    /\ SIZE = 3

\* C22: the two memoization idioms are equivalent.  In every reachable
\* state, for every key k and function f, get_or_insert_with(k, f) gives the
\* same value and leaves the same slots and cursor as "if get(k) is present
\* return it, else compute v = f(k), insert(k, v), return v" (whenever the
\* calls return); so does every get_or_insert_with call made.
C22_IdiomsAgree ==
    /\ [](~out_of_bounds(self) =>
            \A k \in Keys : \A f \in Fns :
                /\ memoized2b(self, k, f).ret = memoized2a(self, k, f).ret
                /\ memoized2b(self, k, f).cache = memoized2a(self, k, f).cache)
    /\ [][(call'.op = "get_or_insert_with" /\ fault' = "none") =>
            LET m == memoized2a(self, call'.k, [x \in AllKeys |-> unwrap(call'.arg)])
            IN  /\ ret' = Some(m.ret)
                /\ buffer' = m.cache.buffer
                /\ cursor' = m.cache.cursor]_vars

\* get_or_insert_with of a not-present key on a full cache of capacity 2,
\* and one more idiom call possible on a present key with another value.
C22_Witness ==
    /\ call.op = "get_or_insert_with"
    /\ ~call.hit
    /\ evict.now
    /\ SIZE = 2
    /\ ret = call.arg
    /\ \E k \in Keys : \E f \in Fns :
          is_some(get(self, k)) /\ get(self, k) # Some(f[k])

\* The key/value mappings visible through get on cache c.
mappings(c) == {<<x, unwrap(get(c, x))>> : x \in keys_in(c)}

\* C23: the cache refines a bounded FIFO queue.  Run side by side with a
\* sequence of at most N pairs with distinct keys (insert of a present key
\* replaces its value in place, insert of an absent key appends and drops
\* the head when the length would exceed N, clear empties it), after every
\* sequence of calls the mappings visible through get are those of the
\* sequence, and the next key to be evicted is the head of the sequence.
C23_RefinesFifo ==
    /\ [](/\ mappings(self) = queue_map(queue)
          /\ \A x \in AllKeys \ queue_keys(queue) : get(self, x) = None)
    /\ [](/\ Len(queue) <= SIZE
          /\ Cardinality(queue_keys(queue)) = Len(queue)
          /\ (Len(queue) = SIZE) <=> Full)
    /\ []((Full /\ SIZE > 0) => is_key(buffer[cursor], Head(queue)[1]))
    /\ [][\A x \in keys_in(self) \ keys_in(self') :
             call'.op = "clear" \/ (Full /\ x = Head(queue)[1])]_vars

\* The head was just evicted from a full cache whose oldest key is no longer
\* in slot 0.
C23_Witness ==
    /\ call.op = "get_or_try_insert_with"
    /\ NewKey(call)
    /\ evict.now
    /\ SIZE = 3
    /\ Len(queue) = SIZE
    /\ ~is_key(buffer[0], Head(queue)[1])
    /\ queue[SIZE] = <<call.k, unwrap(call.arg)>>

\* The indices of the Used slots of cache c.
used_indices(c) == {i \in 0..(c.SIZE - 1) : is_used(c.buffer[i])}

\* C24: occupied slots form a prefix until the cache is full.  In every
\* reachable state either all N slots are Used, or the Used slots are
\* exactly those at 0..cursor-1 and the slot at the cursor is Empty; so a
\* call that stores a not-present key evicts no present key while a slot is
\* Empty.
C24_OccupiedPrefix ==
    /\ [](\/ Full
          \/ /\ used_indices(self) = 0..(cursor - 1)
             /\ buffer[cursor] = Empty)
    /\ [][(NewKey(call') /\ ~Full) =>
            /\ keys_in(self) \subseteq keys_in(self')
            /\ used_indices(self') = used_indices(self) \cup {cursor}]_vars

\* The second key stored in a cache of capacity 3: one slot is still Empty.
C24_Witness ==
    /\ SIZE = 3
    /\ ~Full
    /\ cursor = 2
    /\ used_indices(self) = {0, 1}
    /\ NewKey(call)
    /\ call.op = "insert"

\* C25: failures are not cached.  After get_or_try_insert_with(k, f)
\* returned Err for a not-present key k, a following get_or_try_insert_with
\* or get_or_insert_with of k invokes its function again, and when that
\* succeeds with v it stores k with v in the slot at the cursor the failed
\* call was made with: the call does what it would have done on the cache as
\* it was before the failed call.
C25_FailureNotCached ==
    [][(/\ failed[1] = "failed"
        /\ call'.op \in {"get_or_insert_with", "get_or_try_insert_with"}
        /\ call'.k = failed[2]) =>
          LET c0 == failed[3]
              k  == call'.k
              g  == get_or_try_insert_with(c0, k,
                        [x \in AllKeys |->
                            IF call'.arg[1] = "Err" THEN call'.arg
                            ELSE Ok(unwrap(call'.arg))])
          IN  /\ ~call'.hit
              /\ invoked' = <<k>>
              /\ self' = g.cache
              /\ ret'[2] = g.ret[2]
              /\ NewKey(call') =>
                    /\ buffer' = [c0.buffer EXCEPT
                                     ![c0.cursor] = Used(k, unwrap(call'.arg))]
                    /\ cursor' = (c0.cursor + 1) % SIZE
                    /\ get(self', k) = Some(unwrap(call'.arg))]_vars

\* get_or_insert_with stored the key of the failed call in a full cache.
C25_Witness ==
    /\ failed[1] = "retried"
    /\ call.op = "get_or_insert_with"
    /\ NewKey(call)
    /\ evict.now
    /\ Full
    /\ SIZE = 3
    /\ cursor = 2

----------------------------------------------------------------------------
TypeOK ==
    /\ SIZE \in 1..MaxSize
    /\ DOMAIN buffer = 0..(SIZE - 1)
    /\ cursor \in Nat

====
